---- MODULE Spec2Model ----
(***************************************************************************)
(* Model of the xs-backend form service: the CORS gate, the multer upload  *)
(* boundary, the two validators, and the two route handlers that compose   *)
(* and dispatch a notification and an acknowledgment e-mail per request.   *)
(* The repository holds two builds of the application: the full one (both  *)
(* routes, req.app = "full") and src/server.js (the contact route only,    *)
(* its own origin list, no cc; req.app = "server").                        *)
(*                                                                         *)
(* A string is a sequence of one-character strings.  A JavaScript value is *)
(* a record [t, s, n]: t is the type tag, s the characters of a string,    *)
(* n the number (or 0/1 for a boolean).                                    *)
(***************************************************************************)
EXTENDS Integers, Sequences, FiniteSets

VARIABLES
  req,         \* the request as sent: build addressed, endpoint, Origin, body, upload
  pc,          \* where the request is in the middleware chain / handler
  file,        \* req.file as multer sets it
  validation,  \* the validator calls made for the request, with their results
  composed,    \* the mail option objects the handler has built
  mails,       \* the transporter.sendMail calls made, with their promise states
  responses    \* the res.status(..).json(..) calls made

vars == <<req, pc, file, validation, composed, mails, responses>>

\* ------------------------------------------------------------------ bounds

\* Longest run of filler characters put around a swept string.
MaxPad == 10

\* Longest core of freely chosen characters in a swept phone string.
MaxCore == 2

\* Longest freely chosen e-mail string.
MaxEmailLen == 5

\* ------------------------------------------------------- JavaScript values

Undefined == [t |-> "undefined", s |-> <<>>, n |-> 0]
Null == [t |-> "null", s |-> <<>>, n |-> 0]
Str(s) == [t |-> "string", s |-> s, n |-> 0]
Num(n) == [t |-> "number", s |-> <<>>, n |-> n]
Bool(b) == [t |-> "boolean", s |-> <<>>, n |-> IF b THEN 1 ELSE 0]
Obj == [t |-> "object", s |-> <<>>, n |-> 0]

\* ToBoolean: what `!v`, `v ? a : b` and `if (v)` look at.
Truthy(v) ==
  CASE v.t = "string" -> v.s # <<>>
    [] v.t = "number" -> v.n # 0
    [] v.t = "boolean" -> v.n = 1
    [] v.t = "object" -> TRUE
    [] OTHER -> FALSE

Digits == {"0", "1", "2", "3", "4", "5", "6", "7", "8", "9"}

\* The characters the regular-expression class \s and String.prototype.trim
\* treat as white space (the ones the model's alphabets contain).
WhiteSpace == {" ", "\t", "\n"}

DigitChar(d) ==
  CASE d = 0 -> "0" [] d = 1 -> "1" [] d = 2 -> "2" [] d = 3 -> "3"
    [] d = 4 -> "4" [] d = 5 -> "5" [] d = 6 -> "6" [] d = 7 -> "7"
    [] d = 8 -> "8" [] d = 9 -> "9"

RECURSIVE Decimal(_)
Decimal(n) == IF n < 10 THEN <<DigitChar(n)>>
              ELSE Append(Decimal(n \div 10), DigitChar(n % 10))

\* ToString, as RegExp.prototype.test and template literals apply it.
JsToString(v) ==
  CASE v.t = "string" -> v.s
    [] v.t = "number" -> Decimal(v.n)
    [] v.t = "boolean" -> IF v.n = 1 THEN <<"t", "r", "u", "e">>
                          ELSE <<"f", "a", "l", "s", "e">>
    [] v.t = "object" -> <<"[", "o", "b", "j", "e", "c", "t", " ",
                           "O", "b", "j", "e", "c", "t", "]">>
    [] v.t = "null" -> <<"n", "u", "l", "l">>
    [] OTHER -> <<"u", "n", "d", "e", "f", "i", "n", "e", "d">>

\* Only a string has the methods trim and replace.
HasStringMethods(v) == v.t = "string"

SetMin(S) == CHOOSE x \in S : \A y \in S : x <= y
SetMax(S) == CHOOSE x \in S : \A y \in S : x >= y

\* String.prototype.trim
trim(s) ==
  LET keep == {i \in 1..Len(s) : s[i] \notin WhiteSpace}
  IN  IF keep = {} THEN <<>> ELSE SubSeq(s, SetMin(keep), SetMax(keep))

IsDigit(c) == c \in Digits

\* s.replace(/\D/g, '')
cleanedPhone(s) == SelectSeq(s, IsDigit)

\* One character of the class [^\s@]
EmailChar(c) == c \notin WhiteSpace /\ c # "@"

\* A run [^\s@]* over positions lo..hi of s.
EmailRun(s, lo, hi) == \A k \in lo..hi : EmailChar(s[k])

\* /^[^\s@]+@[^\s@]+\.[^\s@]+$/ : a split of s at an "@" (position i) and a
\* later "." (position j) with three non-empty runs of [^\s@] around them.
emailRegex(s) ==
  \E i \in 2..Len(s) : \E j \in (i + 2)..(Len(s) - 1) :
    /\ s[i] = "@"
    /\ s[j] = "."
    /\ EmailRun(s, 1, i - 1)
    /\ EmailRun(s, i + 1, j - 1)
    /\ EmailRun(s, j + 1, Len(s))

\* One character of the class [\d\s-()]
PhoneChar(c) == c \in Digits \/ c \in WhiteSpace \/ c \in {"-", "(", ")"}

\* A run [\d\s-()]* over positions lo..hi of s.
PhoneRun(s, lo, hi) == \A k \in lo..hi : PhoneChar(s[k])

\* The quantifier off by one: {9,}
phoneRegexNine(s) ==
  LET from == IF Len(s) > 0 /\ s[1] = "+" THEN 2 ELSE 1
  IN  /\ Len(s) - from + 1 >= 9
      /\ PhoneRun(s, from, Len(s))

\* /^\+?[\d\s-()]{10,}$/
phoneRegex(s) ==
  LET from == IF Len(s) > 0 /\ s[1] = "+" THEN 2 ELSE 1
  IN  /\ Len(s) - from + 1 >= 10
      /\ PhoneRun(s, from, Len(s))

\* -------------------------------------------------------------- validators

\* const errors = {}
NoErrors == [k \in {} |-> ""]

\* errors.key = message
Put(errors, key, message) ==
  [k \in (DOMAIN errors) \cup {key} |-> IF k = key THEN message ELSE errors[k]]

\* What a validator call produces: a return value {isValid, errors}, or a
\* TypeError thrown out of it (threw).
Returned(errors) ==
  [threw |-> FALSE, isValid |-> Cardinality(DOMAIN errors) = 0, errors |-> errors]
Thrown == [threw |-> TRUE, isValid |-> FALSE, errors |-> NoErrors]

\* v?.trim() throws when v is neither nullish nor a string (v.trim is not a
\* function); it is undefined for a nullish v.
OptionalTrimThrows(v) == v.t \notin {"undefined", "null"} /\ ~HasStringMethods(v)
OptionalTrim(v) == IF v.t \in {"undefined", "null"} THEN Undefined ELSE Str(trim(v.s))

\* !v || v.trim().length < min : throws when v is truthy and not a string.
TrimLengthThrows(v) == Truthy(v) /\ ~HasStringMethods(v)
TrimLengthFails(v, min) == ~Truthy(v) \/ Len(trim(v.s)) < min

\* !v || !regex.test(v)
EmailFails(v) == ~Truthy(v) \/ ~emailRegex(JsToString(v))
JobPhoneFails(v) == ~Truthy(v) \/ ~phoneRegex(JsToString(v))

\* if (v) { v.replace(/\D/g, '') ... } : throws when v is truthy and not a string.
ContactPhoneThrows(v) == Truthy(v) /\ ~HasStringMethods(v)
ContactPhoneFails(v) ==
  Truthy(v) /\ (Len(cleanedPhone(v.s)) < 10 \/ Len(cleanedPhone(v.s)) > 15)

validateJobApplication(data) ==
  IF OptionalTrimThrows(data.firstName) THEN Thrown
  ELSE LET e1 == IF ~Truthy(OptionalTrim(data.firstName))
                 THEN Put(NoErrors, "firstName", "First name is required")
                 ELSE NoErrors
  IN IF OptionalTrimThrows(data.lastName) THEN Thrown
  ELSE LET e2 == IF ~Truthy(OptionalTrim(data.lastName))
                 THEN Put(e1, "lastName", "Last name is required")
                 ELSE e1
           e3 == IF EmailFails(data.email)
                 THEN Put(e2, "email", "Valid email is required")
                 ELSE e2
           e4 == IF JobPhoneFails(data.phone)
                 THEN Put(e3, "phone", "Valid phone number is required")
                 ELSE e3
  IN Returned(e4)

\* Returning at the first broken rule instead of collecting them all.
validateFormInputFailFast(data) ==
  IF TrimLengthThrows(data.name) THEN Thrown
  ELSE IF TrimLengthFails(data.name, 2)
  THEN Returned(Put(NoErrors, "name", "Valid name is required"))
  ELSE IF EmailFails(data.email)
  THEN Returned(Put(NoErrors, "email", "Valid email is required"))
  ELSE IF ContactPhoneThrows(data.fullPhoneNumber) THEN Thrown
  ELSE IF ContactPhoneFails(data.fullPhoneNumber)
  THEN Returned(Put(NoErrors, "phone", "Invalid phone number length"))
  ELSE IF TrimLengthThrows(data.subject) THEN Thrown
  ELSE IF TrimLengthFails(data.subject, 3)
  THEN Returned(Put(NoErrors, "subject", "Subject is required"))
  ELSE IF TrimLengthThrows(data.message) THEN Thrown
  ELSE IF TrimLengthFails(data.message, 10)
  THEN Returned(Put(NoErrors, "message", "Message must be at least 10 characters"))
  ELSE Returned(NoErrors)

validateFormInput(data) ==
  IF TrimLengthThrows(data.name) THEN Thrown
  ELSE LET e1 == IF TrimLengthFails(data.name, 2)
                 THEN Put(NoErrors, "name", "Valid name is required")
                 ELSE NoErrors
           e2 == IF EmailFails(data.email)
                 THEN Put(e1, "email", "Valid email is required")
                 ELSE e1
  IN IF ContactPhoneThrows(data.fullPhoneNumber) THEN Thrown
  ELSE LET e3 == IF ContactPhoneFails(data.fullPhoneNumber)
                 THEN Put(e2, "phone", "Invalid phone number length")
                 ELSE e2
  IN IF TrimLengthThrows(data.subject) THEN Thrown
  ELSE LET e4 == IF TrimLengthFails(data.subject, 3)
                 THEN Put(e3, "subject", "Subject is required")
                 ELSE e3
  IN IF TrimLengthThrows(data.message) THEN Thrown
  ELSE LET e5 == IF TrimLengthFails(data.message, 10)
                 THEN Put(e4, "message", "Message must be at least 10 characters")
                 ELSE e4
  IN Returned(e5)

\* ---------------------------------------------------------- configuration

\* process.env, read-only after start.
FRONTEND_URL == "https://frontend.example"
CLIENT_EMAIL == Str(<<"c", "@", "x", ".", "i", "o">>)
HR_EMAIL == Str(<<"h", "@", "x", ".", "i", "o">>)

\* limits.fileSize
fileSize == 5 * 1024 * 1024

allowedTypes ==
  {"application/pdf", "application/msword",
   "application/vnd.openxmlformats-officedocument.wordprocessingml.document"}

allowedOrigins ==
  {FRONTEND_URL, "http://localhost:5173", "https://xs-gamma.vercel.app"}

\* allowedOrigins of src/server.js
serverAllowedOrigins ==
  {"http://localhost:5173", "https://your-production-frontend.com"}

\* ------------------------------------------------------------- boundaries

\* The Origin header: absent (undefined) or a string, possibly empty.
NoOrigin == [present |-> FALSE, value |-> ""]
Origin(u) == [present |-> TRUE, value |-> u]

\* Every origin let through.
corsOriginAny(origin) == TRUE

\* corsOptions.origin: callback(null, true) (TRUE) or callback(new Error) (FALSE).
\* !origin holds for an absent header and for an empty one.
corsOrigin(origin) ==
  (~origin.present \/ origin.value = "") \/ origin.value \in allowedOrigins

\* corsOptions.origin of src/server.js (indexOf(origin) !== -1).
serverCorsOrigin(origin) ==
  (~origin.present \/ origin.value = "") \/ origin.value \in serverAllowedOrigins

NoFile == [present |-> FALSE, mimetype |-> "", size |-> 0]
File(mimetype, size) == [present |-> TRUE, mimetype |-> mimetype, size |-> size]

\* Every type let through.
fileFilterAny(f) == TRUE

\* multer's fileFilter: cb(null, true) (TRUE) or cb(new Error) (FALSE).
fileFilter(f) == f.mimetype \in allowedTypes

\* multer's limits: a file longer than limits.fileSize ends in LIMIT_FILE_SIZE.
overLimit(f) == f.size > fileSize

\* ------------------------------------------------------------- responses

ErrorsResponse(errors) == [status |-> 400, kind |-> "errors", errors |-> errors]
FileErrorResponse == ErrorsResponse(Put(NoErrors, "file", "Resume is required"))
SuccessResponse == [status |-> 200, kind |-> "success", errors |-> NoErrors]
\* The handlers' catch block: "Failed to submit ..."
FailedResponse == [status |-> 500, kind |-> "failed", errors |-> NoErrors]
\* The error handling middleware: "An unexpected error occurred"
UnexpectedResponse == [status |-> 500, kind |-> "unexpected", errors |-> NoErrors]

\* ---------------------------------------------------------------- e-mails

\* The notification to the client address (cc HR, except in src/server.js),
\* with the resume attached on the job-application route.
mailOptions(r, f) ==
  [kind |-> "notification", to |-> CLIENT_EMAIL,
   cc |-> IF r.app = "server" THEN Undefined ELSE HR_EMAIL,
   attachment |-> IF r.endpoint = "job" THEN f ELSE NoFile]

\* The acknowledgment to the submitter (applicantMailOptions / userMailOptions).
applicantMailOptions(r) ==
  [kind |-> "acknowledgment", to |-> r.body.email, cc |-> Undefined,
   attachment |-> NoFile]

\* transporter.sendMail(m): the call is made and returns a pending promise.
sendMail(m) == [mail |-> m, state |-> "pending"]

\* Only the first call made.
sendFirstOnly(ms) == <<sendMail(ms[1])>>

\* The array literal [sendMail(a), sendMail(b)]: every call is made, in order,
\* before anything is awaited.
sendAll(ms) == [i \in 1..Len(ms) |-> sendMail(ms[i])]

\* Promise.any in place of Promise.all: fulfilled with the first success.
PromiseAny(ps) ==
  IF \E i \in 1..Len(ps) : ps[i].state = "fulfilled" THEN "fulfilled"
  ELSE IF \A i \in 1..Len(ps) : ps[i].state = "rejected" THEN "rejected"
  ELSE "pending"

\* Promise.race in place of Promise.all: settled with the first settlement.
PromiseRace(ps) ==
  IF \E i \in 1..Len(ps) : ps[i].state = "rejected" THEN "rejected"
  ELSE IF \E i \in 1..Len(ps) : ps[i].state = "fulfilled" THEN "fulfilled"
  ELSE "pending"

\* Promise.all over the calls: rejected as soon as one promise is rejected,
\* fulfilled once all are fulfilled, pending otherwise.
PromiseAll(ps) ==
  IF \E i \in 1..Len(ps) : ps[i].state = "rejected" THEN "rejected"
  ELSE IF \A i \in 1..Len(ps) : ps[i].state = "fulfilled" THEN "fulfilled"
  ELSE "pending"

\* --------------------------------------------------------------- requests

Rep(c, n) == [i \in 1..n |-> c]
SeqsUpTo(A, n) == UNION {[1..k -> A] : k \in 0..n}

ValidName == <<"A", "l">>
ValidEmail == <<"a", "@", "b", ".", "c", "o", "m">>
ValidJobPhone ==
  <<"+", "1", " ", "(", "5", "5", "5", ")", " ", "1", "2", "3", "-",
    "4", "5", "6", "7">>
ValidContactPhone ==
  <<"1", "2", "3", "-", "4", "5", "6", "-", "7", "8", "9", "0">>
ValidSubject == <<"H", "e", "y">>
ValidMessage == Rep("m", 10)

\* Values of every JSON type, and the absent field.
NonStrings ==
  {Undefined, Null, Num(0), Num(12), Num(1234567890), Bool(FALSE), Bool(TRUE), Obj}

\* A field that is absent, a string breaking its rule, a string meeting it,
\* or a number.
Few(bad, good) == {Undefined, Str(bad), Str(good), Num(12)}

\* n filler characters with white space around and inside them.
Padded(c) ==
  UNION {{Rep(c, n), <<" ">> \o Rep(c, n) \o <<"\n">>, Rep(c, n) \o <<"\t">>,
          <<c, " ">> \o Rep(c, n)} : n \in 0..(MaxPad + 1)}

PhoneAlphabet == {"5", " ", "\t", "\n", "-", "(", ")", "+", "a"}

\* Phone strings: a freely chosen core before or after a run of digits.
PhoneStrings ==
  UNION {{core \o Rep("5", n), Rep("5", n) \o core} :
           core \in SeqsUpTo(PhoneAlphabet, MaxCore), n \in 0..MaxPad}
    \cup {ValidJobPhone, <<"a", "b", "c">>}

\* Contact phone strings: runs of digits around the 10 and 15 digit limits,
\* with and without separators.
ContactPhoneStrings ==
  UNION {{Rep("5", n), <<"+">> \o Rep("5", n), Rep("5", n) \o <<"-", "a">>} :
           n \in 0..(MaxPad + 7)}
    \cup {ValidContactPhone, <<"1", "2", "3", "4", "5">>}

EmailStrings ==
  SeqsUpTo({"a", "@", ".", " "}, MaxEmailLen)
    \cup {ValidEmail, <<"a", "@", "b">>, <<"a", ".", "c", "o", "m">>}

ValidJobBody ==
  [firstName |-> Str(ValidName), lastName |-> Str(ValidName),
   email |-> Str(ValidEmail), phone |-> Str(ValidJobPhone)]

ValidContactBody ==
  [name |-> Str(ValidName), email |-> Str(ValidEmail),
   fullPhoneNumber |-> Undefined, subject |-> Str(ValidSubject),
   message |-> Str(ValidMessage)]

\* Every combination of a few values per field.
JobBodies ==
  [firstName : Few(<<" ">>, ValidName), lastName : Few(<<"\t">>, ValidName),
   email : Few(<<"a", "@", "b">>, ValidEmail),
   phone : Few(<<"a", "b", "c">>, ValidJobPhone)]

\* One field swept over all types and many strings, the others valid.
JobSweeps ==
  {[ValidJobBody EXCEPT !.firstName = v] : v \in NonStrings}
  \cup {[ValidJobBody EXCEPT !.lastName = v] : v \in NonStrings}
  \cup {[ValidJobBody EXCEPT !.email = v] : v \in NonStrings}
  \cup {[ValidJobBody EXCEPT !.phone = v] : v \in NonStrings}
  \cup {[ValidJobBody EXCEPT !.firstName = Str(s)] : s \in Padded("a")}
  \cup {[ValidJobBody EXCEPT !.phone = Str(s)] : s \in PhoneStrings}

ContactBodies ==
  [name : Few(<<" ", "a">>, ValidName),
   email : Few(<<"a", "@", "b">>, ValidEmail),
   fullPhoneNumber : Few(<<"1", "2", "3", "4", "5">>, ValidContactPhone),
   subject : Few(<<"H", "i">>, ValidSubject),
   message : Few(Rep("m", 9), ValidMessage)]

ContactSweeps ==
  {[ValidContactBody EXCEPT !.name = v] : v \in NonStrings}
  \cup {[ValidContactBody EXCEPT !.email = v] : v \in NonStrings}
  \cup {[ValidContactBody EXCEPT !.fullPhoneNumber = v] : v \in NonStrings}
  \cup {[ValidContactBody EXCEPT !.subject = v] : v \in NonStrings}
  \cup {[ValidContactBody EXCEPT !.message = v] : v \in NonStrings}
  \cup {[ValidContactBody EXCEPT !.name = Str(s)] : s \in Padded("a")}
  \cup {[ValidContactBody EXCEPT !.subject = Str(s)] : s \in Padded("a")}
  \cup {[ValidContactBody EXCEPT !.message = Str(s)] : s \in Padded("a")}
  \cup {[ValidContactBody EXCEPT !.email = Str(s)] : s \in EmailStrings}
  \cup {[ValidContactBody EXCEPT !.fullPhoneNumber = Str(s)] :
          s \in ContactPhoneStrings}

Origins ==
  {NoOrigin, Origin(""), Origin("http://localhost:5173"), Origin(FRONTEND_URL),
   Origin("https://your-production-frontend.com"), Origin("https://evil.example")}

GoodUpload == File("application/pdf", 1024)

Uploads ==
  {NoFile, GoodUpload, File("application/msword", fileSize),
   File("application/pdf", fileSize + 1), File("image/png", 1024),
   File("image/png", fileSize + 1)}

\* The requests a client can send: the few-valued bodies with every Origin
\* and upload, the swept bodies with no Origin and (job) a good or no upload.
Requests ==
  [app : {"full"}, endpoint : {"job"}, origin : Origins, body : JobBodies,
   upload : Uploads]
  \cup
  [app : {"full"}, endpoint : {"job"}, origin : {NoOrigin}, body : JobSweeps,
   upload : {NoFile, GoodUpload}]
  \cup
  [app : {"full", "server"}, endpoint : {"contact"}, origin : Origins,
   body : ContactBodies, upload : {NoFile}]
  \cup
  [app : {"full", "server"}, endpoint : {"contact"}, origin : {NoOrigin},
   body : ContactSweeps, upload : {NoFile}]

\* ----------------------------------------------------------------- actions

Init ==
  /\ req \in Requests
  /\ pc = "CORS"
  /\ file = NoFile
  /\ validation = <<>>
  /\ composed = <<>>
  /\ mails = <<>>
  /\ responses = <<>>

\* app.use(cors(corsOptions)): next() or next(err).
Cors ==
  /\ pc = "CORS"
  /\ pc' = IF (IF req.app = "server" THEN serverCorsOrigin(req.origin)
                ELSE corsOrigin(req.origin))
           THEN (IF req.endpoint = "job" THEN "UPLOAD" ELSE "RECEIVED")
           ELSE "ONERROR"
  /\ UNCHANGED <<req, file, validation, composed, mails, responses>>

\* upload.single('resume'): the file filter, then the size limit, then req.file.
Upload ==
  /\ pc = "UPLOAD"
  /\ IF ~req.upload.present
     THEN pc' = "RECEIVED" /\ file' = file
     ELSE IF ~fileFilter(req.upload) \/ overLimit(req.upload)
     THEN pc' = "ONERROR" /\ file' = file
     ELSE pc' = "RECEIVED" /\ file' = req.upload
  /\ UNCHANGED <<req, validation, composed, mails, responses>>

\* The error handling middleware.
ErrorHandler ==
  /\ pc = "ONERROR"
  /\ responses' = Append(responses, UnexpectedResponse)
  /\ pc' = "ERROR"
  /\ UNCHANGED <<req, file, validation, composed, mails>>

\* The route handler is entered.
Receive ==
  /\ pc = "RECEIVED"
  /\ pc' = "VALIDATING"
  /\ UNCHANGED <<req, file, validation, composed, mails, responses>>

validator(r) ==
  IF r.endpoint = "job" THEN validateJobApplication(r.body)
  ELSE validateFormInput(r.body)

\* The file check made before the fields are validated.
ValidateFileFirst ==
  /\ pc = "VALIDATING"
  /\ validation = <<>>
  /\ LET result == validator(req)
     IN  /\ validation' = <<result>>
         /\ IF req.endpoint = "job" /\ ~file.present
            THEN responses' = Append(responses, FileErrorResponse) /\ pc' = "REJECTED"
            ELSE IF result.threw
            THEN responses' = Append(responses, FailedResponse) /\ pc' = "FAILED"
            ELSE IF ~result.isValid
            THEN /\ responses' = Append(responses, ErrorsResponse(result.errors))
                 /\ pc' = "REJECTED"
            ELSE /\ responses' = responses
                 /\ pc' = IF req.endpoint = "job" THEN "VALIDATING" ELSE "COMPOSING"
  /\ UNCHANGED <<req, file, composed, mails>>

\* The validator call and the handler's branch on its result; a throw lands
\* in the handler's catch block.
Validate ==
  /\ pc = "VALIDATING"
  /\ validation = <<>>
  /\ LET result == validator(req)
     IN  /\ validation' = <<result>>
         /\ IF result.threw
            THEN responses' = Append(responses, FailedResponse) /\ pc' = "FAILED"
            ELSE IF ~result.isValid
            THEN /\ responses' = Append(responses, ErrorsResponse(result.errors))
                 /\ pc' = "REJECTED"
            ELSE /\ responses' = responses
                 /\ pc' = IF req.endpoint = "job" THEN "VALIDATING" ELSE "COMPOSING"
  /\ UNCHANGED <<req, file, composed, mails>>

\* if (!req.file)
FileCheck ==
  /\ pc = "VALIDATING"
  /\ validation # <<>>
  /\ IF ~file.present
     THEN responses' = Append(responses, FileErrorResponse) /\ pc' = "REJECTED"
     ELSE responses' = responses /\ pc' = "COMPOSING"
  /\ UNCHANGED <<req, file, validation, composed, mails>>

\* The two mail option objects are built.
Compose ==
  /\ pc = "COMPOSING"
  /\ composed = <<>>
  /\ composed' = <<mailOptions(req, file), applicantMailOptions(req)>>
  /\ UNCHANGED <<req, pc, file, validation, mails, responses>>

\* Both sendMail calls are made and the handler awaits Promise.all.
SendBoth ==
  /\ pc = "COMPOSING"
  /\ composed # <<>>
  /\ mails' = sendAll(composed)
  /\ pc' = "SENDING"
  /\ UNCHANGED <<req, file, validation, composed, responses>>

\* The mail relay settles one sendMail promise, at any time after the call.
Settle(i, outcome) ==
  /\ i \in 1..Len(mails)
  /\ mails[i].state = "pending"
  /\ mails' = [mails EXCEPT ![i].state = outcome]
  /\ UNCHANGED <<req, pc, file, validation, composed, responses>>

\* The handler resumes after the await: 200, or the catch block's 500.
Resume ==
  /\ pc = "SENDING"
  /\ PromiseAll(mails) # "pending"
  /\ IF PromiseAll(mails) = "fulfilled"
     THEN responses' = Append(responses, SuccessResponse) /\ pc' = "ACKED"
     ELSE responses' = Append(responses, FailedResponse) /\ pc' = "FAILED"
  /\ UNCHANGED <<req, file, validation, composed, mails>>

Next ==
  \/ Cors
  \/ Upload
  \/ ErrorHandler
  \/ Receive
  \/ Validate
  \/ FileCheck
  \/ Compose
  \/ SendBoth
  \/ \E i \in 1..2 : \E outcome \in {"fulfilled", "rejected"} : Settle(i, outcome)
  \/ Resume

Spec == Init /\ [][Next]_vars

\* The mail relay settles every call sooner or later and the event loop runs
\* every continuation that is ready.
FairSpec == Spec /\ WF_vars(Next)

\* ------------------------------------------------- the rules, as specified

\* What the specification says of each field, stated without the code's
\* helpers: positions and counts instead of trim, replace and the regexes.

IsString(v) == v.t = "string"
Blank(v) == v \in {Undefined, Null, Str(<<>>), Num(0), Bool(FALSE)}
White(c) == c \in {" ", "\t", "\n"}

\* At least min characters from the first to the last non-white one.
LongEnough(s, min) ==
  \E i \in 1..Len(s) : \E j \in i..Len(s) :
    ~White(s[i]) /\ ~White(s[j]) /\ j - i + 1 >= min

\* local@domain with a dot inside the domain, no white space, one "@".
EmailShaped(s) ==
  LET ats == {i \in 1..Len(s) : s[i] = "@"}
  IN  /\ Cardinality(ats) = 1
      /\ \A i \in 1..Len(s) : ~White(s[i])
      /\ \E i \in ats : i > 1 /\ \E j \in (i + 2)..(Len(s) - 1) : s[j] = "."

\* An optional leading "+", then at least 10 characters of the given classes.
PhoneShaped(s, Spaces) ==
  LET rest == IF s # <<>> /\ Head(s) = "+" THEN Tail(s) ELSE s
  IN  /\ Len(rest) >= 10
      /\ \A i \in 1..Len(rest) : rest[i] \in Digits \cup Spaces \cup {"-", "(", ")"}

DigitCount(s) == Cardinality({i \in 1..Len(s) : s[i] \in Digits})

JobFields == {"firstName", "lastName", "email", "phone"}
ContactFields == {"name", "email", "fullPhoneNumber", "subject", "message"}

\* The rule of field f is violated by value v (a non-string e-mail or job
\* phone is judged by its string form).
Violated(endpoint, f, v) ==
  CASE f \in {"firstName", "lastName"} -> ~(IsString(v) /\ LongEnough(v.s, 1))
    [] f = "name" -> ~(IsString(v) /\ LongEnough(v.s, 2))
    [] f = "subject" -> ~(IsString(v) /\ LongEnough(v.s, 3))
    [] f = "message" -> ~(IsString(v) /\ LongEnough(v.s, 10))
    [] f = "email" -> Blank(v) \/ ~EmailShaped(JsToString(v))
    [] f = "phone" -> Blank(v) \/ ~PhoneShaped(JsToString(v), {" ", "\t", "\n"})
    [] f = "fullPhoneNumber" ->
         ~Blank(v) /\ ~(IsString(v) /\ DigitCount(v.s) \in 10..15)

FieldsOf(endpoint) == IF endpoint = "job" THEN JobFields ELSE ContactFields

ViolatedFields(r) ==
  {f \in FieldsOf(r.endpoint) : Violated(r.endpoint, f, r.body[f])}

\* The fields a validator calls trim or replace on, and the values on which
\* that call is a TypeError.
Unusable(r) ==
  IF r.endpoint = "job"
  THEN \E f \in {"firstName", "lastName"} :
         r.body[f] \notin {Undefined, Null} /\ ~IsString(r.body[f])
  ELSE \E f \in {"name", "fullPhoneNumber", "subject", "message"} :
         ~Blank(r.body[f]) /\ ~IsString(r.body[f])

\* The key the code files a field's violation under.
ErrorKey(f) == IF f = "fullPhoneNumber" THEN "phone" ELSE f

Validated == validation # <<>>
Result == validation[1]
Statuses == {responses[k].status : k \in 1..Len(responses)}
MailStates == {mails[i].state : i \in 1..Len(mails)}

\* ------------------------------------------------------------------ claims

\* C1: a 200 is sent only if both sendMail calls (notification and
\* acknowledgment) succeeded; once a sendMail call has failed and the handler
\* has answered, the answer is the single 500 of its catch block, and no 200
\* is sent for that request, whichever call settles first.
C1_BothOrFailed ==
  /\ 200 \in Statuses =>
       Len(mails) = 2 /\ \A i \in 1..2 : mails[i].state = "fulfilled"
  /\ ("rejected" \in MailStates /\ responses # <<>>) =>
       responses = <<FailedResponse>>
  /\ (pc = "FAILED" /\ mails # <<>>) => "rejected" \in MailStates

\* One call succeeded, the other failed, and the request was answered.
C1_Witness ==
  /\ pc = "FAILED"
  /\ MailStates = {"fulfilled", "rejected"}
  /\ responses = <<FailedResponse>>

\* C2 as stated: whenever a response has been sent after the dispatch, both
\* sendMail calls have completed.
C2_ResponseAfterBoth ==
  (mails # <<>> /\ responses # <<>>) => "pending" \notin MailStates

\* C2 amended: both sendMail calls are made before either is awaited; a 200 is
\* sent only after both have completed; a 500 is sent as soon as one call has
\* failed, which may be while the other call is still in flight.
C2_AllOrFirstFailure ==
  /\ mails # <<>> => Len(mails) = 2
  /\ pc = "ACKED" => MailStates = {"fulfilled"}
  /\ (pc = "FAILED" /\ mails # <<>>) =>
       \E i \in 1..2 : mails[i].state = "rejected"
  /\ (pc \notin {"ACKED", "FAILED"} /\ mails # <<>>) => responses = <<>>

\* The 500 is out while the other sendMail call is still pending.
C2_Witness ==
  /\ pc = "FAILED"
  /\ responses = <<FailedResponse>>
  /\ MailStates = {"rejected", "pending"}

\* C3: the handler's 500 "Failed to submit ..." is produced only when a
\* sendMail call threw or rejected, and a payload the validator finds invalid
\* is answered 400 with its per-field errors.
C3_NeverMixed ==
  /\ (\E k \in 1..Len(responses) : responses[k] = FailedResponse) =>
       "rejected" \in MailStates
  /\ (Validated /\ ~Result.threw /\ ~Result.isValid) =>
       responses = <<ErrorsResponse(Result.errors)>>

C5_TwoDispatches ==
  /\ Len(mails) \in {0, 2}
  /\ (pc \in {"SENDING", "ACKED"} \/ (pc = "FAILED" /\ ~Result.threw)) =>
       /\ Len(mails) = 2
       /\ mails[1].mail.kind = "notification" /\ mails[1].mail.to = CLIENT_EMAIL
       /\ mails[2].mail.kind = "acknowledgment"
       /\ mails[2].mail.to = req.body.email
  /\ (Validated /\ Result.isValid /\ (req.endpoint = "job" => file.present)) =>
       pc \in {"VALIDATING", "COMPOSING", "SENDING", "ACKED", "FAILED"}
  /\ 400 \in Statuses => mails = <<>>

\* Two calls were made although the first one failed.
C5_Witness ==
  /\ pc = "FAILED"
  /\ Len(mails) = 2
  /\ mails[1].state = "rejected"

\* C6 as stated: the errors a validator returns have one entry per violated
\* field, keyed by that field's name (fullPhoneNumber among them), all
\* simultaneous violations present, and isValid is true iff errors is empty.
C6_KeyedByField ==
  (Validated /\ ~Result.threw) =>
    /\ DOMAIN Result.errors = ViolatedFields(req)
    /\ Result.isValid <=> (Result.errors = NoErrors)

\* C6 amended: a validator throws a TypeError exactly on a payload holding a
\* non-string value in a field it calls trim or replace on; on every other
\* payload it returns errors with one entry per violated field, keyed by the
\* field's name except that a fullPhoneNumber violation is keyed "phone", all
\* simultaneous violations present, and isValid is true iff errors is empty.
C6_KeyedByErrorKey ==
  Validated =>
    /\ Result.threw <=> Unusable(req)
    /\ ~Result.threw =>
         /\ DOMAIN Result.errors = {ErrorKey(f) : f \in ViolatedFields(req)}
         /\ Result.isValid <=> (Result.errors = NoErrors)
         /\ Result.isValid <=> (ViolatedFields(req) = {})

\* Three rules broken at once, fullPhoneNumber among them, all reported.
C6_Witness ==
  /\ req.endpoint = "contact"
  /\ Validated /\ ~Result.threw
  /\ ViolatedFields(req) = {"name", "fullPhoneNumber", "message"}
  /\ DOMAIN Result.errors = {"name", "phone", "message"}
  /\ ~Result.isValid

\* C7 as stated: a phone string passes exactly when it is an optional "+"
\* followed by at least 10 characters drawn from digit, space, hyphen and
\* parentheses.
C7_SpaceOnly ==
  (req.endpoint = "job" /\ Validated /\ ~Result.threw /\ IsString(req.body.phone)) =>
    ("phone" \notin DOMAIN Result.errors <=> PhoneShaped(req.body.phone.s, {" "}))

\* C7 amended: ... drawn from digit, any white-space character (space, tab,
\* newline, ...), hyphen and parentheses.
C7_AnyWhiteSpace ==
  (req.endpoint = "job" /\ Validated /\ ~Result.threw /\ IsString(req.body.phone)) =>
    ("phone" \notin DOMAIN Result.errors
       <=> PhoneShaped(req.body.phone.s, {" ", "\t", "\n"}))

\* A phone of ten digits and a tab was accepted.
C7_Witness ==
  /\ req.endpoint = "job"
  /\ Validated /\ ~Result.threw
  /\ IsString(req.body.phone)
  /\ "\t" \in {req.body.phone.s[i] : i \in 1..Len(req.body.phone.s)}
  /\ "phone" \notin DOMAIN Result.errors

ConfiguredOrigins ==
  IF req.app = "server" THEN serverAllowedOrigins ELSE allowedOrigins
InAllowList(o) == o.present /\ o.value \in ConfiguredOrigins
ReachedHandler == pc \notin {"CORS", "UPLOAD", "ONERROR", "ERROR"}
BadUpload(f) == f.present /\ (f.size > fileSize \/ f.mimetype \notin allowedTypes)

\* C8 as stated: an Origin header that is not in the allow-list never reaches
\* a handler; no Origin header or an allow-listed one is passed on.
C8_AllowListOnly ==
  /\ (req.origin.present /\ ~InAllowList(req.origin)) =>
       /\ ~ReachedHandler
       /\ ~Validated /\ mails = <<>> /\ 200 \notin Statuses
  /\ ((~req.origin.present \/ InAllowList(req.origin)) /\ pc \in {"ONERROR", "ERROR"}) =>
       req.endpoint = "job" /\ BadUpload(req.upload)

\* C8 amended: a non-empty Origin header that is not in the allow-list never
\* reaches a handler; no Origin header, an empty one or an allow-listed one is
\* passed on.
C8_NonEmptyNotListed ==
  /\ (req.origin.present /\ req.origin.value # "" /\ ~InAllowList(req.origin)) =>
       /\ ~ReachedHandler /\ pc # "UPLOAD"
       /\ ~Validated /\ mails = <<>> /\ 200 \notin Statuses
  /\ ((~req.origin.present \/ req.origin.value = "" \/ InAllowList(req.origin))
        /\ pc \in {"ONERROR", "ERROR"}) =>
       req.endpoint = "job" /\ BadUpload(req.upload)

\* A foreign origin was turned away by the error handler.
C8_Witness ==
  /\ req.origin = Origin("https://evil.example")
  /\ pc = "ERROR"
  /\ responses = <<UnexpectedResponse>>

\* C9: an upload over 5MB or of another type than PDF/Word never reaches the
\* validator: no validator call, no e-mail, no 200, and the answer is the
\* error handling middleware's.
C9_UploadRejectedFirst ==
  (req.endpoint = "job" /\ BadUpload(req.upload)) =>
    /\ ~ReachedHandler
    /\ ~Validated /\ mails = <<>> /\ 200 \notin Statuses
    /\ responses \in {<<>>, <<UnexpectedResponse>>}
    /\ pc = "ERROR" <=> responses = <<UnexpectedResponse>>

\* An oversized PDF from a permitted origin was answered by the error handler.
C9_Witness ==
  /\ req.endpoint = "job"
  /\ req.origin = Origin("http://localhost:5173")
  /\ req.upload = File("application/pdf", fileSize + 1)
  /\ pc = "ERROR"
  /\ responses = <<UnexpectedResponse>>

\* C10: a request in a handler moves only along RECEIVED -> VALIDATING ->
\* (REJECTED | COMPOSING -> SENDING -> (ACKED | FAILED)) and is answered at
\* most once, a late settlement of a sendMail call adding no response.
C10_Lifecycle ==
  [][/\ <<pc, pc'>> \in
          {<<"RECEIVED", "VALIDATING">>, <<"VALIDATING", "REJECTED">>,
           <<"VALIDATING", "COMPOSING">>, <<"COMPOSING", "SENDING">>,
           <<"SENDING", "ACKED">>, <<"SENDING", "FAILED">>}
          \cup {<<s, s>> : s \in {"RECEIVED", "VALIDATING", "REJECTED", "COMPOSING",
                                  "SENDING", "ACKED", "FAILED"}}
          \cup {<<s, u>> : s \in {"CORS", "UPLOAD", "ONERROR", "ERROR"},
                           u \in {"CORS", "UPLOAD", "ONERROR", "ERROR", "RECEIVED"}}
     /\ Len(responses') <= 1
     /\ responses # <<>> => responses' = responses]_vars

====
